---- MODULE Spec2Model ----
(***************************************************************************)
(* Model of libredex/ReachableClasses.cpp: the reachability marks that     *)
(* decide whether a class, method or field may be deleted or renamed.      *)
(*                                                                         *)
(* Strings are sequences of one-character strings, so that find, substr,   *)
(* replace, prefix tests and strlen are computed as the code computes      *)
(* them.  The names of the program are scaled down: "x.A" stands for a     *)
(* dotted class name such as com.example.Keep, "Lx/A;" for its descriptor. *)
(***************************************************************************)
EXTENDS Integers, Sequences, FiniteSets, TLC

VARIABLES
  rstate,   \* entity -> ReferencedState (the rstate member of every entity)
  scope,    \* the Scope: the program's classes in iteration order
  super,    \* class -> descriptor of its super class type
  last,     \* the last call: operation, inputs and what it returned or wrote
  repeat,   \* whether the last call repeated the call before it
  status,   \* "running", or "diverged" once a call never returns
  run,      \* the configuration and the seeds file of the run
  pc,       \* the block of init_reachable_classes to run next, "idle" outside the call
  ran,      \* evidence sources of the rule evaluator that have run to their end
  pending,  \* the entities that the cascading mark in progress has yet to write
  observed  \* what a reader on another thread last read of a class and its members

vars == <<rstate, scope, super, last, repeat, status, run, pc, ran, pending, observed>>

\* a null DexClass*
NULL == "null"

\* a null DexType* or char*: a string that is no string of the program
NULLSTR == <<"nullptr">>

-----------------------------------------------------------------------------
(* std::string operations                                                  *)

NPOS == -1

\* std::replace(begin, end, a, b)
Replace(s, a, b) == [i \in DOMAIN s |-> IF s[i] = a THEN b ELSE s[i]]

\* std::string::find(needle): position of the first occurrence, else npos
Find(hay, needle) ==
  LET hits == {p \in 0..(Len(hay) - Len(needle)) :
                 SubSeq(hay, p + 1, p + Len(needle)) = needle}
  IN IF hits = {} THEN NPOS
     ELSE CHOOSE p \in hits : \A q \in hits : p <= q

\* std::string::substr(pos)
Substr(s, pos) == SubSeq(s, pos + 1, Len(s))

\* starts_with(str, prefix)
starts_with(str, prefix) ==
  /\ Len(prefix) <= Len(str)
  /\ \A i \in 1..Len(prefix) : str[i] = prefix[i]

-----------------------------------------------------------------------------
(* The entity graph.  Three classes; every class declares one direct       *)
(* method, one virtual method, one static field and one instance field.    *)

Classes == {"A", "B", "C"}

Descriptor == [c \in Classes |->
  CASE c = "A" -> <<"L", "x", "/", "A", ";">>
    [] c = "B" -> <<"L", "y", "/", "B", ";">>
    [] c = "C" -> <<"L", "A", "B", ";">>]

\* a platform type: known to DexType::get_type, with no class in the program
LibType == <<"L", "Z", ";">>

\* the type of a nested class that the program mentions and does not define
InnerType == <<"L", "A", "B", "$", "1", ";">>

\* annotation types
AnnoK == <<"L", "K", ";">>
AnnoN == <<"L", "N", ";">>

get_dmethods(c) == <<c \o ".d">>
get_vmethods(c) == <<c \o ".v">>
\* the class A declares a second static field
get_sfields(c) == IF c = "A" THEN <<"A.s", "A.t">> ELSE <<c \o ".s">>
get_ifields(c) == <<c \o ".i">>

Range(s) == {s[i] : i \in DOMAIN s}

Methods == UNION {Range(get_dmethods(c)) \cup Range(get_vmethods(c)) : c \in Classes}
Fields == UNION {Range(get_sfields(c)) \cup Range(get_ifields(c)) : c \in Classes}
Members == Methods \cup Fields
Entities == Classes \cup Members

MembersOf(c) ==
  Range(get_dmethods(c)) \cup Range(get_vmethods(c))
    \cup Range(get_sfields(c)) \cup Range(get_ifields(c))

\* m->get_name(): the simple name of a member
MemberName == [m \in Members |->
  CASE m = "A.d" -> <<"r", "u", "n">>
    [] m = "A.v" -> <<"r", "u", "n", "2">>
    [] m = "A.s" -> <<"f">>
    [] m = "A.t" -> <<"h">>
    [] m = "A.i" -> <<"g">>
    [] m = "B.d" -> <<"g", "o">>
    [] m = "B.v" -> <<"r", "u", "n">>
    [] m = "B.s" -> <<"g">>
    [] m = "B.i" -> <<"h">>
    [] m = "C.d" -> <<"r", "u", "n", "V">>
    [] m = "C.v" -> <<"g", "o">>
    [] m = "C.s" -> <<"f">>
    [] m = "C.i" -> <<"f">>]

\* methods whose access flags have ACC_NATIVE
NativeMethods == {"B.v", "C.d"}

\* m->get_class(): the descriptor of the owning class
get_class(m) == Descriptor[CHOOSE c \in Classes : m \in MembersOf(c)]

\* get_anno_set(): the annotation types an entity carries
AnnoSet == [e \in Entities |->
  CASE e = "A"   -> {AnnoK}
    [] e = "B.v" -> {AnnoK}
    [] e = "C.i" -> {AnnoN}
    [] e = "C.s" -> {LibType}
    [] OTHER     -> {}]

\* the types DexType::get_type knows: every descriptor the program mentions
KnownTypes == {Descriptor[c] : c \in Classes} \cup {LibType, InnerType, AnnoK, AnnoN}

\* DexType::get_type(name): the interned type, nullptr for an unknown name
get_type(name) == IF name \in KnownTypes THEN name ELSE NULLSTR

\* type_class_internal(type): the class of the program with that type
type_class_internal(t) ==
  IF \E c \in Classes : Descriptor[c] = t
  THEN CHOOSE c \in Classes : Descriptor[c] = t
  ELSE NULL

-----------------------------------------------------------------------------
(* ReferencedState: the four facts of an entity and the derived verdicts   *)

Fresh == [type |-> FALSE, code |-> FALSE, ext |-> FALSE, seed |-> FALSE]

ref_by_type(r) == [r EXCEPT !.type = TRUE]

ref_by_string(r, from_code) ==
  IF from_code THEN [r EXCEPT !.code = TRUE] ELSE [r EXCEPT !.ext = TRUE]

ref_by_seed(r) == [r EXCEPT !.seed = TRUE]

can_delete(r) == ~(r.type \/ r.code \/ r.ext \/ r.seed)

can_rename(r) == ~(r.ext \/ r.seed)

is_seed(r) == r.seed

-----------------------------------------------------------------------------
(* Marking engine (lines 49-129).  A marking operator takes the state      *)
(* table and returns the state table after the call.  The calls of one     *)
(* loop set the same fact on one entity each, so a loop is modelled by the *)
(* set of the entities it reaches and one update of the table.             *)

\* ref_by_type() on the rstate of every entity of the set es
RefByType(rs, es) ==
  [e \in Entities |-> IF e \in es THEN ref_by_type(rs[e]) ELSE rs[e]]

\* ref_by_string(from_code) on the rstate of every entity of the set es
RefByString(rs, es, from_code) ==
  [e \in Entities |-> IF e \in es THEN ref_by_string(rs[e], from_code) ELSE rs[e]]

\* ref_by_seed() on the rstate of every entity of the set es
RefBySeed(rs, es) ==
  [e \in Entities |-> IF e \in es THEN ref_by_seed(rs[e]) ELSE rs[e]]

\* variant of DirectlyReached: the loop over the instance fields is missing
DirectlyReached_no_ifields(dclass) ==
  IF dclass = NULL THEN {}
  ELSE {dclass}
         \cup Range(get_dmethods(dclass)) \cup Range(get_vmethods(dclass))
         \cup Range(get_sfields(dclass))

\* the entities mark_reachable_directly(dclass) calls ref_by_type() on
DirectlyReached(dclass) ==
  IF dclass = NULL THEN {}
  ELSE {dclass}
         \cup Range(get_dmethods(dclass)) \cup Range(get_vmethods(dclass))
         \cup Range(get_sfields(dclass)) \cup Range(get_ifields(dclass))

\* variant of mark_reachable_directly: a class that is type_referenced
\* already is taken to be reached by name as well
mark_reachable_directly_escalating(rs, dclass) ==
  IF dclass # NULL /\ rs[dclass].type
  THEN RefByString(RefByType(rs, DirectlyReached(dclass)), {dclass}, TRUE)
  ELSE RefByType(rs, DirectlyReached(dclass))

mark_reachable_directly(rs, dclass) == RefByType(rs, DirectlyReached(dclass))

mark_only_reachable_directly(rs, m) == RefByType(rs, {m})

\* variant of ClassnameReached: the test for the null class is missing and
\* the writes through the null pointer land on an entity of the program
ClassnameReached_no_null_test(dclass) ==
  IF dclass = NULL THEN {CHOOSE e \in Entities : TRUE}
  ELSE {dclass}
         \cup Range(get_dmethods(dclass)) \cup Range(get_vmethods(dclass))
         \cup Range(get_sfields(dclass)) \cup Range(get_ifields(dclass))

\* the entities mark_reachable_by_classname(dclass, _) calls ref_by_string on
ClassnameReached(dclass) ==
  IF dclass = NULL THEN {}
  ELSE {dclass}
         \cup Range(get_dmethods(dclass)) \cup Range(get_vmethods(dclass))
         \cup Range(get_sfields(dclass)) \cup Range(get_ifields(dclass))

\* variant of mark_reachable_by_classname: the state of the class is
\* assigned, not updated
mark_reachable_by_classname_assign(rs, dclass, from_code) ==
  [e \in Entities |->
     IF e \in ClassnameReached(dclass)
     THEN IF e = dclass THEN ref_by_string(Fresh, from_code)
          ELSE ref_by_string(rs[e], from_code)
     ELSE rs[e]]

mark_reachable_by_classname(rs, dclass, from_code) ==
  RefByString(rs, ClassnameReached(dclass), from_code)

\* the DexType* overload (lines 108-110): the class it passes on
ClassOfType(dtype) == type_class_internal(dtype)

mark_reachable_by_classname_type(rs, dtype, from_code) ==
  mark_reachable_by_classname(rs, ClassOfType(dtype), from_code)

\* the std::string& overload (lines 112-119): the class it passes on
ClassOfName(classname) ==
  LET dtype == get_type(classname)
  IN IF dtype = NULLSTR THEN NULL ELSE type_class_internal(dtype)

mark_reachable_by_classname_str(rs, classname, from_code) ==
  mark_reachable_by_classname(rs, ClassOfName(classname), from_code)

\* variant of SeedReached: the seed mark cascades to the members
SeedReached_cascading(dclass) ==
  IF dclass = NULL THEN {}
  ELSE {dclass}
         \cup Range(get_dmethods(dclass)) \cup Range(get_vmethods(dclass))
         \cup Range(get_sfields(dclass)) \cup Range(get_ifields(dclass))

\* the entities mark_reachable_by_seed(dclass) calls ref_by_seed() on
SeedReached(dclass) == IF dclass = NULL THEN {} ELSE {dclass}

mark_reachable_by_seed(rs, dclass) == RefBySeed(rs, SeedReached(dclass))

\* the DexType* overload (lines 126-129): the class it passes on
SeedClassOfType(dtype) ==
  IF dtype = NULLSTR THEN NULL ELSE type_class_internal(dtype)

mark_reachable_by_seed_type(rs, dtype) ==
  mark_reachable_by_seed(rs, SeedClassOfType(dtype))

-----------------------------------------------------------------------------
(* Rule evaluator: the evidence sources of                                 *)
(* init_permanently_reachable_classes (lines 131-368)                      *)

anno_set_contains(m, keep_annotations) == AnnoSet[m] \cap keep_annotations # {}

\* variant of KeepAnnotatedOf: an annotated class is marked with its members
KeepAnnotatedOf_cascading(cls, keep_annotations) ==
  {m \in {cls} \cup Range(get_dmethods(cls)) \cup Range(get_vmethods(cls))
           \cup Range(get_sfields(cls)) \cup Range(get_ifields(cls)) :
     anno_set_contains(m, keep_annotations) \/ anno_set_contains(cls, keep_annotations)}

\* the body of the loop of keep_annotated_classes for one class: the class
\* and the members that mark_only_reachable_directly is called on
KeepAnnotatedOf(cls, keep_annotations) ==
  {m \in {cls} \cup Range(get_dmethods(cls)) \cup Range(get_vmethods(cls))
           \cup Range(get_sfields(cls)) \cup Range(get_ifields(cls)) :
     anno_set_contains(m, keep_annotations)}

keep_annotated_classes(rs, sc, keep_annotations) ==
  RefByType(rs, UNION {KeepAnnotatedOf(sc[i], keep_annotations) : i \in DOMAIN sc})

\* the index of the first rule that holds the class name (where the loop
\* over the rules breaks), 0 when no rule does
RECURSIVE FirstRuleNaming(_, _, _)
FirstRuleNaming(name, keep_class_mems, j) ==
  IF j > Len(keep_class_mems) THEN 0
  ELSE IF Find(keep_class_mems[j], name) # NPOS THEN j
  ELSE FirstRuleNaming(name, keep_class_mems, j + 1)

\* variant of KeepClassMembersOf: the loop over the rules has no break, so
\* every rule that holds the class name is applied
KeepClassMembersOf_no_break(cls, keep_class_mems) ==
  LET name == Descriptor[cls]
      fs == {f \in Range(get_sfields(cls)) :
               \E j \in DOMAIN keep_class_mems :
                  /\ Find(keep_class_mems[j], name) # NPOS
                  /\ Find(Substr(keep_class_mems[j],
                                 Find(keep_class_mems[j], name) + Len(name)),
                          MemberName[f]) # NPOS}
  IN fs \cup (IF fs = {} THEN {} ELSE {cls})

\* the body of the loop of keep_class_members for one class: the static
\* fields, and with them the class, that mark_only_reachable_directly is
\* called on
KeepClassMembersOf(cls, keep_class_mems) ==
  LET name == Descriptor[cls]
      j == FirstRuleNaming(name, keep_class_mems, 1)
  IN IF j = 0 THEN {}
     ELSE LET class_mem_str == keep_class_mems[j]
              pos == Find(class_mem_str, name)
              rem_str == Substr(class_mem_str, pos + Len(name))
              fs == {f \in Range(get_sfields(cls)) :
                       Find(rem_str, MemberName[f]) # NPOS}
          IN fs \cup (IF fs = {} THEN {} ELSE {cls})

\* variant of keep_class_members: the scan stops at the first class of the
\* scope that a rule marks
keep_class_members_first_class(rs, sc, keep_class_mems) ==
  LET hit == {i \in DOMAIN sc : KeepClassMembersOf(sc[i], keep_class_mems) # {}}
  IN IF hit = {} THEN rs
     ELSE RefByType(rs,
            KeepClassMembersOf(sc[CHOOSE i \in hit : \A k \in hit : i <= k],
                               keep_class_mems))

\* variant of keep_class_members: the class is marked with
\* mark_reachable_directly, which cascades
keep_class_members_cascading(rs, sc, keep_class_mems) ==
  RefByType(rs,
    UNION {IF KeepClassMembersOf(sc[i], keep_class_mems) = {} THEN {}
           ELSE DirectlyReached(sc[i]) : i \in DOMAIN sc})

keep_class_members(rs, sc, keep_class_mems) ==
  RefByType(rs, UNION {KeepClassMembersOf(sc[i], keep_class_mems) : i \in DOMAIN sc})

\* variant of KeepMethodsOf: a method is kept when its name holds a kept name
KeepMethodsOf_substring(cls, methods_to_keep) ==
  {m \in Range(get_dmethods(cls)) \cup Range(get_vmethods(cls)) :
     \E kept \in methods_to_keep : Find(MemberName[m], kept) # NPOS}

\* the body of the loop of keep_methods for one class: the direct and
\* virtual methods whose name is in the set methods_to_keep
KeepMethodsOf(cls, methods_to_keep) ==
  {m \in Range(get_dmethods(cls)) \cup Range(get_vmethods(cls)) :
     MemberName[m] \in methods_to_keep}

\* variant of keep_methods: a method that is type_referenced already is
\* passed over
keep_methods_skip_referenced(rs, sc, ms) ==
  RefByString(rs,
    {m \in UNION {KeepMethodsOf(sc[i], Range(ms)) : i \in DOMAIN sc} : ~rs[m].type},
    FALSE)

keep_methods(rs, sc, ms) ==
  RefByString(rs, UNION {KeepMethodsOf(sc[i], Range(ms)) : i \in DOMAIN sc}, FALSE)

\* lines 296-302: the class a native-library class name is marked through
ClassOfNativeName(classname) ==
  LET type == get_type(classname)
  IN IF type = NULLSTR THEN NULL ELSE ClassOfType(type)

\* lines 282-303; apk holds apk_dir and what the three extractors return
keep_apk_classes(rs, apk) ==
  IF Len(apk.apk_dir) # 0
  THEN RefByString(rs,
         UNION ({ClassnameReached(ClassOfName(apk.manifest[i])) : i \in DOMAIN apk.manifest}
           \cup {ClassnameReached(ClassOfName(apk.layout[i])) : i \in DOMAIN apk.layout}
           \cup {ClassnameReached(ClassOfNativeName(apk.native[i])) : i \in DOMAIN apk.native}),
         FALSE)
  ELSE rs

\* variant of in_reflected_pkg: the super class chain is not walked
in_reflected_pkg_no_walk(dclass, reflected_pkg_classes, sup, depth) ==
  IF dclass = NULL THEN "false"
  ELSE IF dclass \in reflected_pkg_classes THEN "true"
  ELSE "false"

\* in_reflected_pkg: "true", "false", or "diverge" when the recursion never
\* ends: a chain that is longer than the number of classes has come back to
\* a class it passed, and none of its classes is in the set
RECURSIVE in_reflected_pkg(_, _, _, _)
in_reflected_pkg(dclass, reflected_pkg_classes, sup, depth) ==
  IF dclass = NULL THEN "false"
  ELSE IF dclass \in reflected_pkg_classes THEN "true"
  ELSE IF depth >= Cardinality(Classes) THEN "diverge"
  ELSE in_reflected_pkg(type_class_internal(sup[dclass]),
                        reflected_pkg_classes, sup, depth + 1)

\* lines 306-314: the classes whose name starts with a configured package
ReflectedPackageClasses(sc, reflected_package_names) ==
  {sc[i] : i \in {k \in DOMAIN sc :
     \E p \in DOMAIN reflected_package_names :
        starts_with(Descriptor[sc[k]], reflected_package_names[p])}}

\* lines 315-327: the loop over the scope from class i on.  set is
\* reflected_package_classes, marked the classes that were passed to
\* mark_reachable_by_classname; diverged tells that a call of
\* in_reflected_pkg did not return
RECURSIVE MarkReflected(_, _, _, _, _)
MarkReflected(sc, sup, set, marked, i) ==
  IF i > Len(sc) THEN [marked |-> marked, diverged |-> FALSE]
  ELSE LET in == in_reflected_pkg(sc[i], set, sup, 0)
       IN IF in = "diverge" THEN [marked |-> marked, diverged |-> TRUE]
          ELSE IF in = "true"
          THEN MarkReflected(sc, sup, set \cup {sc[i]}, marked \cup {sc[i]}, i + 1)
          ELSE MarkReflected(sc, sup, set, marked, i + 1)

keep_reflected_packages(rs, sc, sup, reflected_package_names) ==
  LET res == MarkReflected(sc, sup,
               ReflectedPackageClasses(sc, reflected_package_names), {}, 1)
  IN [rs |-> RefByString(rs, UNION {ClassnameReached(c) : c \in res.marked}, FALSE),
      diverged |-> res.diverged]

\* type_matches(pattern, name, pl, nl) for a pattern without wildcards
type_matches(pat, cname, pat_len, cls_len) ==
  /\ cls_len = pat_len + 1
  /\ SubSeq(cname, 1, pat_len) = SubSeq(pat, 1, pat_len)
  /\ cname[cls_len] = ";"

\* variant of ClsPatterns: a class name of two characters contributes
RECURSIVE ClsPatterns_two_chars(_, _)
ClsPatterns_two_chars(proguard_rules, i) ==
  IF i > Len(proguard_rules) THEN <<>>
  ELSE LET r == proguard_rules[i]
       IN (IF /\ r.classname # NULLSTR
              /\ r.class_type \in {"CLASS", "INTERFACE"}
              /\ Len(r.classname) >= 2
           THEN << <<"L">> \o Replace(r.classname, ".", "/") >>
           ELSE <<>>) \o ClsPatterns_two_chars(proguard_rules, i + 1)

\* lines 339-350: the patterns that the keep rules from rule i on contribute
RECURSIVE ClsPatterns(_, _)
ClsPatterns(proguard_rules, i) ==
  IF i > Len(proguard_rules) THEN <<>>
  ELSE LET r == proguard_rules[i]
       IN (IF /\ r.classname # NULLSTR
              /\ r.class_type \in {"CLASS", "INTERFACE"}
              /\ Len(r.classname) > 2
           THEN << <<"L">> \o Replace(r.classname, ".", "/") >>
           ELSE <<>>) \o ClsPatterns(proguard_rules, i + 1)

\* lines 352-365: the classes of the scope that a pattern matches
PatternMatched(sc, cls_patterns) ==
  {sc[i] : i \in {k \in DOMAIN sc :
     \E j \in DOMAIN cls_patterns :
        type_matches(cls_patterns[j], Descriptor[sc[k]],
                     Len(cls_patterns[j]), Len(Descriptor[sc[k]]))}}

keep_rule_patterns(rs, sc, proguard_rules) ==
  RefByType(rs,
    UNION {DirectlyReached(c) : c \in PatternMatched(sc, ClsPatterns(proguard_rules, 1))})

\* lines 269-276: the no-optimization annotations and the configured
\* annotation names that resolve to a type
AnnotationTypes(annotations, no_optimizations_anno) ==
  (no_optimizations_anno \cup
     {get_type(annotations[i]) : i \in DOMAIN annotations}) \ {NULLSTR}

\* init_permanently_reachable_classes: cfg holds the configuration and the
\* collaborator inputs; the result is the state table and whether the call
\* diverged (the sources after the closure then never run)
init_permanently_reachable_classes(rs, sc, sup, cfg) ==
  LET r1 == keep_annotated_classes(rs, sc,
              AnnotationTypes(cfg.annotations, cfg.no_optimizations_anno))
      r2 == keep_class_members(r1, sc, cfg.class_members)
      r3 == keep_methods(r2, sc, cfg.methods)
      r4 == keep_apk_classes(r3, cfg.apk)
      c5 == keep_reflected_packages(r4, sc, sup, cfg.reflected_package_names)
  IN IF c5.diverged THEN c5
     ELSE [rs |-> keep_rule_patterns(c5.rs, sc, cfg.proguard_rules),
           diverged |-> FALSE]

-----------------------------------------------------------------------------
(* Incremental recomputer (lines 380-389)                                  *)

\* variant of recompute_classes_reachable_from_code: the owners of native
\* methods are marked with from_code = false
recompute_marks_external(rs, sc) ==
  RefByString(rs,
    UNION {ClassnameReached(ClassOfType(get_class(meth))) :
             meth \in {m \in UNION {Range(get_dmethods(sc[i]))
                                      \cup Range(get_vmethods(sc[i])) : i \in DOMAIN sc} :
                         m \in NativeMethods}},
    FALSE)

\* walk_methods: the direct and virtual methods of the classes of the scope
WalkedMethods(sc) ==
  UNION {Range(get_dmethods(sc[i])) \cup Range(get_vmethods(sc[i])) : i \in DOMAIN sc}

recompute_classes_reachable_from_code(rs, sc) ==
  RefByString(rs,
    UNION {ClassnameReached(ClassOfType(get_class(meth))) :
             meth \in {m \in WalkedMethods(sc) : m \in NativeMethods}},
    TRUE)

\* init_reachable_classes (lines 419-434)
init_reachable_classes(rs, sc, sup, cfg) ==
  LET p == init_permanently_reachable_classes(rs, sc, sup, cfg)
  IN IF p.diverged THEN p
     ELSE [rs |-> recompute_classes_reachable_from_code(p.rs, sc),
           diverged |-> FALSE]

-----------------------------------------------------------------------------
(* The reporter (lines 391-417)                                            *)

\* cls->get_name()->c_str() of the classes cs, in their order
ClassNames(cs) == [i \in 1..Len(cs) |-> Descriptor[cs[i]]]

\* variant of reportReachableClasses: the second loop tests can_delete as
\* the first does
reportReachableClasses_same_test(rs, sc, opened) ==
  [written |-> opened,
   cant_delete |-> IF "cant_delete" \in opened
                   THEN ClassNames(SelectSeq(sc, LAMBDA cls : ~can_delete(rs[cls])))
                   ELSE <<>>,
   cant_rename |-> IF "cant_rename" \in opened
                   THEN ClassNames(SelectSeq(sc, LAMBDA cls : ~can_delete(rs[cls])))
                   ELSE <<>>,
   must_keep |-> IF "must_keep" \in opened
                 THEN ClassNames(SelectSeq(sc, LAMBDA cls : is_seed(rs[cls])))
                 ELSE <<>>]

\* variant of reportReachableClasses: the third loop lists the classes that
\* are not seeds
reportReachableClasses_not_seed(rs, sc, opened) ==
  [written |-> opened,
   cant_delete |-> IF "cant_delete" \in opened
                   THEN ClassNames(SelectSeq(sc, LAMBDA cls : ~can_delete(rs[cls])))
                   ELSE <<>>,
   cant_rename |-> IF "cant_rename" \in opened
                   THEN ClassNames(SelectSeq(sc, LAMBDA cls : ~can_rename(rs[cls])))
                   ELSE <<>>,
   must_keep |-> IF "must_keep" \in opened
                 THEN ClassNames(SelectSeq(sc, LAMBDA cls : ~is_seed(rs[cls])))
                 ELSE <<>>]

\* what the call writes.  opened holds the files whose std::ofstream opens
\* (lines 394, 402, 410); the streams are never tested, so the lines sent
\* to a stream that did not open are lost and the call returns as ever.
\* The three loops over the scope send a class to .cant_delete when
\* !can_delete(cls), to .cant_rename when !can_rename(cls) and to
\* .must_keep when is_seed(cls)
reportReachableClasses(rs, sc, opened) ==
  [written |-> opened,
   cant_delete |-> IF "cant_delete" \in opened
                   THEN ClassNames(SelectSeq(sc, LAMBDA cls : ~can_delete(rs[cls])))
                   ELSE <<>>,
   cant_rename |-> IF "cant_rename" \in opened
                   THEN ClassNames(SelectSeq(sc, LAMBDA cls : ~can_rename(rs[cls])))
                   ELSE <<>>,
   must_keep |-> IF "must_keep" \in opened
                 THEN ClassNames(SelectSeq(sc, LAMBDA cls : is_seed(rs[cls])))
                 ELSE <<>>]

-----------------------------------------------------------------------------
(* Seed ingestion (lines 27-38, 436-468)                                   *)

get_dextype_from_dotname(dotname) ==
  IF dotname = NULLSTR THEN NULLSTR
  ELSE get_type(Replace(<<"L">> \o dotname \o <<";">>, ".", "/"))

\* variant of SeedLineAccepted: the nested-class marker is not looked for
SeedLineAccepted_no_dollar(line) ==
  Find(line, <<":">>) = NPOS

\* whether the line passes the test of lines 448-449
SeedLineAccepted(line) ==
  Find(line, <<":">>) = NPOS /\ Find(line, <<"$">>) = NPOS

\* the getline loop from line i on: the types passed to
\* mark_reachable_by_seed and the value of count
RECURSIVE ReadSeeds(_, _, _, _)
ReadSeeds(lines, types, count, i) ==
  IF i > Len(lines) THEN [types |-> types, count |-> count]
  ELSE LET dex_type == get_dextype_from_dotname(lines[i])
       IN IF SeedLineAccepted(lines[i]) /\ dex_type # NULLSTR
          THEN ReadSeeds(lines, types \cup {dex_type}, count + 1, i + 1)
          ELSE ReadSeeds(lines, types, count, i + 1)

\* seeds_file.found: whether the ifstream opened; .lines: what getline reads
init_seed_classes(rs, seeds_file) ==
  IF ~seeds_file.found THEN [rs |-> rs, count |-> 0]
  ELSE LET res == ReadSeeds(seeds_file.lines, {}, 0, 1)
       IN [rs |-> RefBySeed(rs, UNION {SeedReached(SeedClassOfType(t)) : t \in res.types}),
           count |-> res.count]

-----------------------------------------------------------------------------
(* Inputs                                                                  *)

\* a name that is no type of the program
UnknownType == <<"L", "q", "/", "Q", ";">>

\* the super class types of A, B and C: a chain C -> B -> A, a chain
\* A -> B -> C, a class C under A, and a malformed graph where A and B are
\* each other's super class
Supers ==
  { [c \in Classes |-> CASE c = "A" -> LibType [] c = "B" -> Descriptor["A"]
                         [] c = "C" -> Descriptor["B"]],
    [c \in Classes |-> CASE c = "A" -> Descriptor["B"] [] c = "B" -> Descriptor["C"]
                         [] c = "C" -> LibType],
    [c \in Classes |-> CASE c = "A" -> LibType [] c = "B" -> LibType
                         [] c = "C" -> Descriptor["A"]],
    [c \in Classes |-> CASE c = "A" -> Descriptor["B"] [] c = "B" -> Descriptor["A"]
                         [] c = "C" -> LibType] }

ScopeOrders == {<<"A", "B", "C">>, <<"C", "B", "A">>}

\* keep_annotations of the config with the caller's no-optimization types;
\* the first is the input of a run that configures no annotation
NoAnnotations == [annotations |-> <<>>, no_optimizations_anno |-> {}]

AnnotationInputs ==
  { NoAnnotations,
    [annotations |-> <<AnnoK>>, no_optimizations_anno |-> {}],
    [annotations |-> <<UnknownType>>, no_optimizations_anno |-> {AnnoN}] }

\* keep_class_members of the config
ClassMemberInputs ==
  { <<>>,
    << <<"A", "f">> >>,
    << <<"L", "x", "/", "A", ";", "L", "A", "B", ";", " ", "f">> >>,
    << <<"L", "x", "/", "A", ";", "g">>,
       <<"L", "x", "/", "A", ";", "f">>,
       <<"L", "y", "/", "B", ";", "f", "g", "h">> >>,
    << <<"L", "x", "/", "A", ";", "f">>,
       <<"L", "x", "/", "A", ";", "h">> >> }

\* keep_methods of the config
MethodInputs ==
  { <<>>,
    << <<"r", "u", "n">> >>,
    << <<"g", "o">>, <<"r", "u">>, <<"g", "o">> >> }

\* apk_dir and what the manifest, layout and native-library extractors
\* return; with an empty apk_dir the extractors are not called
ApkInputs ==
  { [apk_dir |-> <<>>, manifest |-> <<Descriptor["A"]>>, layout |-> <<>>,
     native |-> <<Descriptor["C"]>>],
    [apk_dir |-> <<"d">>, manifest |-> <<Descriptor["B"], UnknownType>>,
     layout |-> <<LibType>>, native |-> <<UnknownType, LibType>>] }

\* keep_packages of the config
PackageInputs ==
  { <<>>,
    << <<"L", "x", "/">> >>,
    << <<"L", "y", "/">>, <<"L", "q", "/">> >>,
    << <<"L", "A">> >> }

\* the parsed keep rules
KeepRuleInputs ==
  { <<>>,
    << [classname |-> <<"x", ".", "A">>, class_type |-> "CLASS"],
       [classname |-> <<"A", "B">>, class_type |-> "CLASS"] >>,
    << [classname |-> <<"y", ".", "B">>, class_type |-> "ENUM"],
       [classname |-> NULLSTR, class_type |-> "CLASS"],
       [classname |-> <<"x", ".">>, class_type |-> "CLASS"] >>,
    << [classname |-> <<"y", ".", "B">>, class_type |-> "INTERFACE"] >> }

\* the seeds file: whether it opens, and its lines
SeedInputs ==
  { [found |-> TRUE, lines |-> << <<"x", ".", "A">>, <<"y", ".", "B", ":", "m">> >>],
    [found |-> TRUE, lines |-> << <<"Z">>, <<"q", ".", "Q">> >>],
    [found |-> TRUE, lines |-> << <<"y", ".", "B">>, <<"A", "B", "$", "1">>,
                                  <<"y", ".", "B">> >>],
    [found |-> FALSE, lines |-> <<>>] }

\* the report files that open: all three, none (the directory of
\* reportFileName does not exist), all but .cant_rename
ReportOpens ==
  { {"cant_delete", "cant_rename", "must_keep"}, {}, {"cant_delete", "must_keep"} }

\* config, proguard_rules and no_optimizations_anno of a call of
\* init_reachable_classes, with what the collaborators return
Config(a, m, ms, k, p, r) ==
  [annotations |-> a.annotations, no_optimizations_anno |-> a.no_optimizations_anno,
   apk |-> k, reflected_package_names |-> p, proguard_rules |-> r,
   class_members |-> m, methods |-> ms]

\* the configuration init_reachable_classes is called with as one operation:
\* every source is configured, with names that resolve and names that do not
EvalConfigs ==
  { Config([annotations |-> <<AnnoK, UnknownType>>, no_optimizations_anno |-> {AnnoN}],
           << <<"L", "x", "/", "A", ";", "f">>, <<"L", "x", "/", "A", ";", "h">> >>,
           << <<"r", "u", "n">> >>,
           [apk_dir |-> <<"d">>, manifest |-> <<Descriptor["B"], UnknownType>>,
            layout |-> <<LibType>>, native |-> <<UnknownType, LibType>>],
           << <<"L", "y", "/">>, <<"L", "q", "/">> >>,
           << [classname |-> <<"x", ".", "A">>, class_type |-> "INTERFACE"] >>) }

\* the inputs of a run of the rule evaluator and of the seed ingestion, one
\* per evidence source
InputTuples ==
  AnnotationInputs \X ClassMemberInputs \X MethodInputs \X ApkInputs
    \X PackageInputs \X KeepRuleInputs \X SeedInputs

\* the number of evidence sources that the inputs t configure
NumConfigured(t) ==
  (IF t[1] # NoAnnotations THEN 1 ELSE 0) + (IF t[2] # <<>> THEN 1 ELSE 0)
    + (IF t[3] # <<>> THEN 1 ELSE 0) + (IF t[4].apk_dir # <<>> THEN 1 ELSE 0)
    + (IF t[5] # <<>> THEN 1 ELSE 0) + (IF t[6] # <<>> THEN 1 ELSE 0)
    + (IF t[7].found THEN 1 ELSE 0)

\* the runs followed have at most this many sources configured, or all
MaxConfigured == 2

\* runs in which every source is configured
FullRuns ==
  { << [annotations |-> <<AnnoK>>, no_optimizations_anno |-> {}],
       << <<"L", "x", "/", "A", ";", "g">>, <<"L", "x", "/", "A", ";", "f">>,
          <<"L", "y", "/", "B", ";", "f", "g", "h">> >>,
       << <<"r", "u", "n">> >>,
       [apk_dir |-> <<"d">>, manifest |-> <<Descriptor["B"], UnknownType>>,
        layout |-> <<LibType>>, native |-> <<UnknownType, LibType>>],
       << <<"L", "x", "/">> >>,
       << [classname |-> <<"x", ".", "A">>, class_type |-> "CLASS"],
          [classname |-> <<"A", "B">>, class_type |-> "CLASS"] >>,
       [found |-> TRUE, lines |-> << <<"x", ".", "A">>, <<"y", ".", "B", ":", "m">> >>] >>,
    << [annotations |-> <<UnknownType>>, no_optimizations_anno |-> {AnnoN}],
       << <<"L", "x", "/", "A", ";", "f">>, <<"L", "x", "/", "A", ";", "h">> >>,
       << <<"g", "o">>, <<"r", "u">>, <<"g", "o">> >>,
       [apk_dir |-> <<"d">>, manifest |-> <<Descriptor["B"], UnknownType>>,
        layout |-> <<LibType>>, native |-> <<UnknownType, LibType>>],
       << <<"L", "A">> >>,
       << [classname |-> <<"y", ".", "B">>, class_type |-> "INTERFACE"] >>,
       [found |-> TRUE, lines |-> << <<"y", ".", "B">>, <<"A", "B", "$", "1">>,
                                     <<"y", ".", "B">> >>] >> }

\* the configuration and the seeds file of a run
RunInputs ==
  { [seeds_file |-> t[7], cfg |-> Config(t[1], t[2], t[3], t[4], t[5], t[6])] :
      t \in {u \in InputTuples : NumConfigured(u) <= MaxConfigured} \cup FullRuns }

\* the run of a program whose rule evaluation is not followed block by block
NoRun ==
  [seeds_file |-> [found |-> FALSE, lines |-> <<>>],
   cfg |-> Config(NoAnnotations, <<>>, <<>>,
                  [apk_dir |-> <<>>, manifest |-> <<>>, layout |-> <<>>, native |-> <<>>],
                  <<>>, <<>>)]

-----------------------------------------------------------------------------
(* The marking engine and the public operations as a state machine: any    *)
(* operation may be called when the one before has returned.               *)

NoCall == [from_code |-> FALSE, op |-> "none", arg |-> NULL, ret |-> 0]

Call(op, arg, from_code, ret) ==
  [from_code |-> from_code, op |-> op, arg |-> arg, ret |-> ret]

\* no reader has read anything
NoObservation == [cls |-> NULL, cant_delete |-> {}]

\* the state after construction: no entity is marked, no operation has been
\* called
InitState ==
  /\ rstate = [e \in Entities |-> Fresh]
  /\ last = NoCall
  /\ repeat = FALSE
  /\ status = "running"
  /\ pc = "idle"
  /\ ran = {}
  /\ pending = <<>>
  /\ observed = NoObservation

\* the program of the public operations: the scope C, B, A and the chain
\* C -> B -> A
Init ==
  /\ InitState
  /\ scope = <<"C", "B", "A">>
  /\ super = [c \in Classes |-> CASE c = "A" -> LibType [] c = "B" -> Descriptor["A"]
                                  [] c = "C" -> Descriptor["B"]]
  /\ run = NoRun

\* an operation is called when no call is in progress and no call has
\* failed to return
CanCall == status = "running" /\ pc = "idle" /\ pending = <<>>

\* the same operation called on the same arguments
SameCall(a, b) == a.op = b.op /\ a.from_code = b.from_code /\ a.arg = b.arg

\* the record of a call and its place in the history
Recorded(call) ==
  /\ last' = call
  /\ repeat' = SameCall(call, last)

\* a call that returns: the new state table and the record of the call
Returns(rs, call) ==
  /\ rstate' = rs
  /\ Recorded(call)
  /\ UNCHANGED <<scope, super, status, run, pc, ran, pending, observed>>

MarkReachableDirectly ==
  \E dclass \in {"B", NULL} :
    /\ CanCall
    /\ Returns(mark_reachable_directly(rstate, dclass),
               Call("mark_reachable_directly", dclass, FALSE, 0))

MarkOnlyReachableDirectly ==
  \E m \in {"C", "A.s"} :
    /\ CanCall
    /\ Returns(mark_only_reachable_directly(rstate, m),
               Call("mark_only_reachable_directly", m, FALSE, 0))

MarkReachableByClassname ==
  \E dclass \in {"C", NULL}, from_code \in BOOLEAN :
    /\ CanCall
    /\ Returns(mark_reachable_by_classname(rstate, dclass, from_code),
               Call("mark_reachable_by_classname", dclass, from_code, 0))

MarkReachableByClassnameType ==
  \E dtype \in {Descriptor["C"], LibType}, from_code \in BOOLEAN :
    /\ CanCall
    /\ Returns(mark_reachable_by_classname_type(rstate, dtype, from_code),
               Call("mark_reachable_by_classname_type", dtype, from_code, 0))

MarkReachableByClassnameStr ==
  \E classname \in {Descriptor["A"], LibType, UnknownType}, from_code \in BOOLEAN :
    /\ CanCall
    /\ Returns(mark_reachable_by_classname_str(rstate, classname, from_code),
               Call("mark_reachable_by_classname_str", classname, from_code, 0))

MarkReachableBySeed ==
  \E dclass \in {"A", NULL} :
    /\ CanCall
    /\ Returns(mark_reachable_by_seed(rstate, dclass),
               Call("mark_reachable_by_seed", dclass, FALSE, 0))

MarkReachableBySeedType ==
  \E dtype \in {Descriptor["B"], LibType, NULLSTR} :
    /\ CanCall
    /\ Returns(mark_reachable_by_seed_type(rstate, dtype),
               Call("mark_reachable_by_seed_type", dtype, FALSE, 0))

InitReachableClasses ==
  \E cfg \in EvalConfigs :
    /\ CanCall
    /\ LET res == init_reachable_classes(rstate, scope, super, cfg)
       IN /\ rstate' = res.rs
          /\ Recorded(Call("init_reachable_classes", cfg, FALSE, 0))
          /\ status' = IF res.diverged THEN "diverged" ELSE "running"
          /\ UNCHANGED <<scope, super, run, pc, ran, pending, observed>>

RecomputeClassesReachableFromCode ==
  /\ CanCall
  /\ Returns(recompute_classes_reachable_from_code(rstate, scope),
             Call("recompute_classes_reachable_from_code", NULL, FALSE, 0))

InitSeedClasses ==
  \E seeds_file \in SeedInputs :
    /\ CanCall
    /\ LET res == init_seed_classes(rstate, seeds_file)
       IN Returns(res.rs, Call("init_seed_classes", seeds_file, FALSE, res.count))

ReportReachableClasses ==
  \E opened \in ReportOpens :
    /\ CanCall
    /\ Returns(rstate, Call("reportReachableClasses", opened, FALSE,
                            reportReachableClasses(rstate, scope, opened)))

Next ==
  \/ MarkReachableDirectly
  \/ MarkOnlyReachableDirectly
  \/ MarkReachableByClassname
  \/ MarkReachableByClassnameType
  \/ MarkReachableByClassnameStr
  \/ MarkReachableBySeed
  \/ MarkReachableBySeedType
  \/ InitReachableClasses
  \/ RecomputeClassesReachableFromCode
  \/ InitSeedClasses
  \/ ReportReachableClasses

Spec == Init /\ [][Next]_vars

-----------------------------------------------------------------------------
(* The rule evaluator block by block.  init_reachable_classes runs the     *)
(* evidence sources of init_permanently_reachable_classes in the order of  *)
(* the code and then the recompute; init_seed_classes is a call of its     *)
(* own, before or after.  run holds the configuration and the seeds file.  *)

SourceNames == {"annotations", "class_members", "methods", "apk",
                "reflected_packages", "keep_rules", "seeds"}

InitEval ==
  /\ InitState
  /\ scope \in ScopeOrders
  /\ super \in Supers
  /\ run \in RunInputs

\* the block src of the call in progress is the next to run
CanRun(src) == status = "running" /\ pc = src /\ pending = <<>>

\* the block src has run to its end and left the state table rs; the block
\* next follows
Ran(src, next, rs) ==
  /\ rstate' = rs
  /\ ran' = ran \cup ({src} \cap SourceNames)
  /\ pc' = next
  /\ UNCHANGED <<scope, super, last, repeat, status, run, pending, observed>>

\* init_reachable_classes is called and enters
\* init_permanently_reachable_classes (lines 427, 249-276)
EnterInitReachableClasses ==
  /\ CanCall
  /\ pc' = "annotations"
  /\ UNCHANGED <<rstate, scope, super, last, repeat, status, run, ran, pending, observed>>

RunAnnotations ==
  /\ CanRun("annotations")
  /\ Ran("annotations", "class_members",
         keep_annotated_classes(rstate, scope,
           AnnotationTypes(run.cfg.annotations, run.cfg.no_optimizations_anno)))

RunClassMembers ==
  /\ CanRun("class_members")
  /\ Ran("class_members", "methods",
         keep_class_members(rstate, scope, run.cfg.class_members))

RunMethods ==
  /\ CanRun("methods")
  /\ Ran("methods", "apk", keep_methods(rstate, scope, run.cfg.methods))

RunApk ==
  /\ CanRun("apk")
  /\ Ran("apk", "reflected_packages", keep_apk_classes(rstate, run.cfg.apk))

\* lines 305-327; when a call of in_reflected_pkg does not return, neither
\* does the block: the marks made before it stay, nothing follows
RunReflectedPackages ==
  /\ CanRun("reflected_packages")
  /\ LET res == keep_reflected_packages(rstate, scope, super,
                                        run.cfg.reflected_package_names)
     IN IF res.diverged
        THEN /\ rstate' = res.rs
             /\ status' = "diverged"
             /\ UNCHANGED <<scope, super, last, repeat, run, pc, ran, pending, observed>>
        ELSE Ran("reflected_packages", "keep_rules", res.rs)

\* lines 338-367, after which init_permanently_reachable_classes returns
RunKeepRules ==
  /\ CanRun("keep_rules")
  /\ Ran("keep_rules", "recompute",
         keep_rule_patterns(rstate, scope, run.cfg.proguard_rules))

\* line 433, after which init_reachable_classes returns
RunRecompute ==
  /\ CanRun("recompute")
  /\ Ran("recompute", "idle", recompute_classes_reachable_from_code(rstate, scope))

\* init_seed_classes, called when no other call is in progress
RunSeeds ==
  /\ CanCall
  /\ Ran("seeds", "idle", init_seed_classes(rstate, run.seeds_file).rs)

NextEval ==
  \/ EnterInitReachableClasses
  \/ RunAnnotations
  \/ RunClassMembers
  \/ RunMethods
  \/ RunApk
  \/ RunReflectedPackages
  \/ RunKeepRules
  \/ RunRecompute
  \/ RunSeeds

SpecEval == InitEval /\ [][NextEval]_vars

-----------------------------------------------------------------------------
(* The cascading marks write by write.  mark_reachable_directly and        *)
(* mark_reachable_by_classname set the fact on the class and then on each  *)
(* member, one statement after the other, on the calling thread; the next  *)
(* operation starts when the call has returned.  The writes take no lock   *)
(* and are no atomics, so a reader on another thread is held back by       *)
(* nothing: it may query the entities between any two writes.              *)

\* the entities in the order in which lines 50-66 and 90-105 write them
WriteOrder(dclass) ==
  <<dclass>> \o get_dmethods(dclass) \o get_vmethods(dclass)
             \o get_sfields(dclass) \o get_ifields(dclass)

\* the call is entered; a null class returns at once (lines 50 and 89)
Enters(call) ==
  /\ CanCall
  /\ Recorded(call)
  /\ pending' = IF call.arg = NULL THEN <<>> ELSE WriteOrder(call.arg)
  /\ UNCHANGED <<rstate, scope, super, status, run, pc, ran, observed>>

EnterMarkReachableDirectly ==
  \E dclass \in Classes \cup {NULL} :
    Enters(Call("mark_reachable_directly", dclass, FALSE, 0))

EnterMarkReachableByClassname ==
  \E dclass \in Classes \cup {NULL}, from_code \in BOOLEAN :
    Enters(Call("mark_reachable_by_classname", dclass, from_code, 0))

\* the next statement of the call in progress: one rstate is written
WriteNext ==
  /\ pending # <<>>
  /\ rstate' = [rstate EXCEPT ![Head(pending)] =
                  IF last.op = "mark_reachable_directly"
                  THEN ref_by_type(@)
                  ELSE ref_by_string(@, last.from_code)]
  /\ pending' = Tail(pending)
  /\ UNCHANGED <<scope, super, last, repeat, status, run, pc, ran, observed>>

\* a reader on another thread queries can_delete of a class and of its
\* members; nothing in lines 49-67 and 88-106 makes it wait for a call in
\* progress
ReaderQueries ==
  \E c \in Classes :
    /\ observed' = [cls |-> c,
                    cant_delete |-> {e \in {c} \cup MembersOf(c) : ~can_delete(rstate[e])}]
    /\ UNCHANGED <<rstate, scope, super, last, repeat, status, run, pc, ran, pending>>

NextSteps ==
  \/ EnterMarkReachableDirectly
  \/ EnterMarkReachableByClassname
  \/ WriteNext
  \/ ReaderQueries

SpecSteps == Init /\ [][NextSteps]_vars

-----------------------------------------------------------------------------
(* Properties                                                              *)

\* a step of Spec that is the call op: every step of Spec is a call that
\* returns and leaves its record in last
Called(op) == last'.op = op

\* a step of SpecEval in which the block src has run to its end
SourceRan(src) == pc = src /\ pc' # src

\* no fact of the entity e is cleared by the step
KeepsFacts(e) ==
  /\ rstate[e].type => rstate'[e].type
  /\ rstate[e].code => rstate'[e].code
  /\ rstate[e].ext => rstate'[e].ext
  /\ rstate[e].seed => rstate'[e].seed

\* C1: in every step of every operation, for every entity, no fact is
\* cleared, and can_delete and can_rename never go from false to true.
C1_Monotone ==
  [][\A e \in Entities :
       /\ KeepsFacts(e)
       /\ ~can_delete(rstate[e]) => ~can_delete(rstate'[e])
       /\ ~can_rename(rstate[e]) => ~can_rename(rstate'[e])]_vars

\* C1 witness: the seed class A, which could not be renamed before
\* mark_reachable_by_classname("Lx/A;", true) was called, still cannot
C1_Witness ==
  /\ last.op = "mark_reachable_by_classname_str"
  /\ last.from_code
  /\ last.arg = Descriptor["A"]
  /\ rstate["A"].code
  /\ rstate["A"].seed
  /\ ~rstate["A"].ext
  /\ ~can_rename(rstate["A"])

\* C2: mark_reachable_directly(C) sets type_referenced on C and on every
\* method and field declared on C, changes no other fact of them, and
\* changes nothing of any other class or of its members.
C2_DirectCascade ==
  [][(Called("mark_reachable_directly") /\ last'.arg \in Classes) =>
       \A e \in Entities :
         IF e = last'.arg \/ e \in MembersOf(last'.arg)
         THEN rstate'[e] = [rstate[e] EXCEPT !.type = TRUE]
         ELSE rstate'[e] = rstate[e]]_vars

\* C2 witness: B was marked directly while A held a seed mark: B and its
\* four members are type_referenced, A and its members are as they were
C2_Witness ==
  /\ last.op = "mark_reachable_directly"
  /\ last.arg = "B"
  /\ \A e \in {"B"} \cup MembersOf("B") : rstate[e].type /\ can_rename(rstate[e])
  /\ rstate["A"].seed /\ ~rstate["A"].type
  /\ \A e \in MembersOf("A") : rstate[e] = Fresh

\* C3: mark_reachable_by_seed(C) makes C a seed that can be neither deleted
\* nor renamed, leaves the other three facts of C and of its members as
\* they were, and does not change seed_referenced, can_delete or can_rename
\* of the members of C.
C3_SeedNoCascade ==
  [][(Called("mark_reachable_by_seed") /\ last'.arg \in Classes) =>
       LET C == last'.arg
       IN /\ is_seed(rstate'[C])
          /\ ~can_delete(rstate'[C])
          /\ ~can_rename(rstate'[C])
          /\ \A e \in {C} \cup MembersOf(C) :
               /\ rstate'[e].type = rstate[e].type
               /\ rstate'[e].code = rstate[e].code
               /\ rstate'[e].ext = rstate[e].ext
          /\ \A m \in MembersOf(C) :
               /\ rstate'[m].seed = rstate[m].seed
               /\ can_delete(rstate'[m]) = can_delete(rstate[m])
               /\ can_rename(rstate'[m]) = can_rename(rstate[m])]_vars

\* C3 witness: A was marked as a seed; its members can still be deleted
C3_Witness ==
  /\ last.op = "mark_reachable_by_seed"
  /\ last.arg = "A"
  /\ is_seed(rstate["A"]) /\ ~can_delete(rstate["A"]) /\ ~can_rename(rstate["A"])
  /\ \A m \in MembersOf("A") : can_delete(rstate[m]) /\ ~is_seed(rstate[m])

\* the string n occurs in the string h at offset p
OccursAt(n, h, p) ==
  /\ p >= 0
  /\ p + Len(n) <= Len(h)
  /\ \A k \in 1..Len(n) : h[p + k] = n[k]

Contains(h, n) == \E p \in 0..Len(h) : OccursAt(n, h, p)

\* the descriptor of a dotted class name
DescriptorOf(dotted) ==
  <<"L">> \o [i \in DOMAIN dotted |-> IF dotted[i] = "." THEN "/" ELSE dotted[i]]
          \o <<";">>

\* the classes of the program that an accepted line of the seeds file names
SeedNamedClasses(seeds_file) ==
  {c \in Classes :
     /\ seeds_file.found
     /\ \E i \in DOMAIN seeds_file.lines :
          /\ \A k \in DOMAIN seeds_file.lines[i] :
               seeds_file.lines[i][k] \notin {":", "$"}
          /\ DescriptorOf(seeds_file.lines[i]) = Descriptor[c]}

\* C4: the value init_seed_classes returns is the number of entities of the
\* program that the call marked seed_referenced.
C4_CountIsMarked ==
  (last.op = "init_seed_classes") =>
     /\ \A c \in SeedNamedClasses(last.arg) : is_seed(rstate[c])
     /\ last.ret = Cardinality(SeedNamedClasses(last.arg))

\* the static fields of cls whose name holds the string fs
SfieldsHolding(cls, fs) ==
  {f \in Range(get_sfields(cls)) : Contains(MemberName[f], fs)}

\* the classes at positions of the scope whose descriptor holds the string cs
\* and that declare a static field whose name holds the string fs
MemberRuleMatches(cs, fs) ==
  {i \in DOMAIN scope :
     Contains(Descriptor[scope[i]], cs) /\ SfieldsHolding(scope[i], fs) # {}}

\* C5 as claimed: a rule is a class substring followed by a field
\* substring; of the classes that match both, keep_class_members marks the
\* first of the scope and its matching static field, and leaves every later
\* one and its members as they were.
C5_FirstMatchWins ==
  [][SourceRan("class_members") =>
       LET rules == run.cfg.class_members
       IN \A r \in DOMAIN rules : \A k \in 1..(Len(rules[r]) - 1) :
            LET cs == SubSeq(rules[r], 1, k)
                fs == SubSeq(rules[r], k + 1, Len(rules[r]))
                hit == MemberRuleMatches(cs, fs)
            IN \A i \in hit : \A j \in hit :
                 ((\A h \in hit : i <= h) /\ i < j) =>
                    /\ rstate'[scope[i]].type
                    /\ \A f \in SfieldsHolding(scope[i], fs) : rstate'[f].type
                    /\ \A e \in {scope[j]} \cup MembersOf(scope[j]) :
                         rstate'[e] = rstate[e]]_vars

\* the first rule in which the descriptor of cls occurs, 0 when there is none
RuleNaming(cls, rules) ==
  LET naming == {r \in DOMAIN rules : Contains(rules[r], Descriptor[cls])}
  IN IF naming = {} THEN 0 ELSE CHOOSE r \in naming : \A q \in naming : r <= q

\* the static fields of cls whose name occurs in the rule after an
\* occurrence of the descriptor of cls
SfieldsNamedBy(cls, rule) ==
  {f \in Range(get_sfields(cls)) :
     \E p \in 0..Len(rule) : \E q \in 0..Len(rule) :
        /\ OccursAt(Descriptor[cls], rule, p)
        /\ OccursAt(MemberName[f], rule, q)
        /\ q >= p + Len(Descriptor[cls])}

\* what keep_class_members marks of the class cls
MemberKept(cls, rules) ==
  IF RuleNaming(cls, rules) = 0 THEN {}
  ELSE LET fs == SfieldsNamedBy(cls, rules[RuleNaming(cls, rules)])
       IN IF fs = {} THEN {} ELSE fs \cup {cls}

\* C5 as amended: keep_class_members handles every class of the scope on
\* its own, whatever its position: the first rule in which the whole
\* descriptor of the class occurs decides; the static fields whose name
\* occurs in that rule after the descriptor become type_referenced, and so
\* does the class when there is such a field; nothing else changes.
C5_PerClassFirstRule ==
  [][SourceRan("class_members") =>
       LET rules == run.cfg.class_members
       IN \A c \in Classes :
            \A kept \in {MemberKept(c, rules)} :
               \A e \in {c} \cup MembersOf(c) :
                  rstate'[e] = IF e \in kept THEN [rstate[e] EXCEPT !.type = TRUE]
                               ELSE rstate[e]]_vars

\* C5 witness: one rule that holds the descriptors of A and of C and the
\* field name f: both classes and both fields are marked, nothing of B is
C5_Witness ==
  /\ pc = "methods"
  /\ ran = {"annotations", "class_members"}
  /\ Len(run.cfg.class_members) = 1
  /\ Contains(run.cfg.class_members[1], Descriptor["A"])
  /\ Contains(run.cfg.class_members[1], Descriptor["C"])
  /\ rstate["A"].type /\ rstate["A.s"].type
  /\ rstate["C"].type /\ rstate["C.s"].type
  /\ ~rstate["A.i"].type /\ ~rstate["C.i"].type
  /\ \A e \in {"B"} \cup MembersOf("B") : rstate[e] = Fresh

\* the classes on the resolved super class chain of c, c included
RECURSIVE ChainFrom(_, _)
ChainFrom(cs, k) ==
  IF k = 0 THEN cs
  ELSE ChainFrom(cs \cup ({type_class_internal(super[d]) : d \in cs} \ {NULL}), k - 1)

ResolvedChain(c) == ChainFrom({c}, Cardinality(Classes))

\* the class is in a configured package
InKeptPackage(c, pkgs) ==
  \E p \in DOMAIN pkgs :
     /\ Len(pkgs[p]) <= Len(Descriptor[c])
     /\ SubSeq(Descriptor[c], 1, Len(pkgs[p])) = pkgs[p]

\* C6: when the reflected-package source has run, a class of the scope that
\* is in a configured package, or has such a class on its resolved super
\* class chain, has string_referenced_external on itself and on all its
\* members and can be neither renamed nor deleted, wherever it stands in the
\* scope; every other class and its members are as they were.
C6_ReflectedClosure ==
  [][SourceRan("reflected_packages") =>
       LET pkgs == run.cfg.reflected_package_names
       IN \A i \in DOMAIN scope :
            LET c == scope[i]
            IN IF \E d \in ResolvedChain(c) : InKeptPackage(d, pkgs)
               THEN \A e \in {c} \cup MembersOf(c) :
                      /\ rstate'[e] = [rstate[e] EXCEPT !.ext = TRUE]
                      /\ ~can_rename(rstate'[e])
                      /\ ~can_delete(rstate'[e])
               ELSE \A e \in {c} \cup MembersOf(c) : rstate'[e] = rstate[e]]_vars

\* C6 witness: A is in the kept package, B extends A and C extends B, C
\* comes first in the scope: C and B are marked through their chain
C6_Witness ==
  /\ pc = "keep_rules"
  /\ "keep_rules" \notin ran
  /\ scope = <<"C", "B", "A">>
  /\ super["C"] = Descriptor["B"] /\ super["B"] = Descriptor["A"]
  /\ run.cfg.reflected_package_names = << <<"L", "x", "/">> >>
  /\ \A e \in Entities : rstate[e].ext /\ ~rstate[e].type

\* C7: keep_methods sets string_referenced_external on the direct and
\* virtual methods whose whole name is a configured name, and changes
\* nothing else: no method whose name only holds a configured name, no
\* class, no field.
C7_MethodKeepExact ==
  [][SourceRan("methods") =>
       LET ms == run.cfg.methods
       IN \A e \in Entities :
            rstate'[e] =
              IF e \in Methods /\ \E i \in DOMAIN ms : MemberName[e] = ms[i]
              THEN [rstate[e] EXCEPT !.ext = TRUE]
              ELSE rstate[e]]_vars

\* C7 witness: with the name run kept, the methods run of A and of B are
\* marked; run2 of A, runV of C and the classes are not
C7_Witness ==
  /\ pc = "apk"
  /\ ran = {"annotations", "class_members", "methods"}
  /\ run.cfg.methods = << <<"r", "u", "n">> >>
  /\ rstate["A.d"].ext /\ rstate["B.v"].ext
  /\ rstate["A.v"] = Fresh /\ rstate["C.d"] = Fresh
  /\ \A c \in Classes : rstate[c] = Fresh

\* the keep rules that contribute a pattern
Contributes(r) ==
  /\ r.classname # NULLSTR
  /\ r.class_type \in {"CLASS", "INTERFACE"}
  /\ Len(r.classname) > 2

\* C8: a keep rule is consulted only when it has a class name of more than
\* two characters and is of kind class or interface; a class of the scope is
\* marked by mark_reachable_directly (itself and all its members become
\* type_referenced) exactly when the descriptor of the class name of a
\* consulted rule equals the descriptor of the class; nothing else changes.
C8_KeepRulePatterns ==
  [][SourceRan("keep_rules") =>
       LET rules == run.cfg.proguard_rules
       IN \A c \in Classes :
            \A matched \in {\E i \in DOMAIN rules :
                              /\ Contributes(rules[i])
                              /\ DescriptorOf(rules[i].classname) = Descriptor[c]} :
               \A e \in {c} \cup MembersOf(c) :
                  rstate'[e] = IF matched THEN [rstate[e] EXCEPT !.type = TRUE]
                               ELSE rstate[e]]_vars

\* C8 witness: the rules x.A and AB, both of kind class: A and its members
\* are marked; C, whose descriptor is LAB;, is not, the name AB being short
C8_Witness ==
  /\ pc = "recompute"
  /\ ran = SourceNames \ {"seeds"}
  /\ Len(run.cfg.proguard_rules) = 2
  /\ run.cfg.proguard_rules[1].classname = <<"x", ".", "A">>
  /\ run.cfg.proguard_rules[2].classname = <<"A", "B">>
  /\ \A e \in {"A"} \cup MembersOf("A") : rstate[e].type
  /\ \A e \in {"C"} \cup MembersOf("C") : rstate[e] = Fresh

\* what the evidence source src does to the state table rs on the graph and
\* the inputs of the run
ApplySource(src, rs) ==
  CASE src = "annotations" ->
         keep_annotated_classes(rs, scope,
           AnnotationTypes(run.cfg.annotations, run.cfg.no_optimizations_anno))
    [] src = "class_members" -> keep_class_members(rs, scope, run.cfg.class_members)
    [] src = "methods" -> keep_methods(rs, scope, run.cfg.methods)
    [] src = "apk" -> keep_apk_classes(rs, run.cfg.apk)
    [] src = "reflected_packages" ->
         keep_reflected_packages(rs, scope, super, run.cfg.reflected_package_names).rs
    [] src = "keep_rules" -> keep_rule_patterns(rs, scope, run.cfg.proguard_rules)
    [] src = "seeds" -> init_seed_classes(rs, run.seeds_file).rs

\* the source src applied when it is one of the set S
ApplyIfIn(src, S, rs) == IF src \in S THEN ApplySource(src, rs) ELSE rs

\* the state table that the sources of the set S leave on the table rs when
\* they run in the order of the code, the seeds last
InCodeOrder(S, rs) ==
  ApplyIfIn("seeds", S,
    ApplyIfIn("keep_rules", S,
      ApplyIfIn("reflected_packages", S,
        ApplyIfIn("apk", S,
          ApplyIfIn("methods", S,
            ApplyIfIn("class_members", S,
              ApplyIfIn("annotations", S, rs)))))))

\* the evidence sources that the run gives an input to
ConfiguredSources ==
  {src \in SourceNames :
     CASE src = "annotations" ->
            run.cfg.annotations # <<>> \/ run.cfg.no_optimizations_anno # {}
       [] src = "class_members" -> run.cfg.class_members # <<>>
       [] src = "methods" -> run.cfg.methods # <<>>
       [] src = "apk" -> run.cfg.apk.apk_dir # <<>>
       [] src = "reflected_packages" -> run.cfg.reflected_package_names # <<>>
       [] src = "keep_rules" -> run.cfg.proguard_rules # <<>>
       [] src = "seeds" -> run.seeds_file.found}

\* C9: when the seven evidence sources have run, the state of every entity
\* is the one that every order of the sources gives on the same graph and
\* inputs.  A source without input changes no table that the others leave;
\* for every set of the other sources, whichever of them runs last on what
\* the rest leaves, the result is what the set leaves in the order of the
\* code; so, by induction on the size of the set, every order of the seven
\* leaves the same table, and the table of the run is that table after the
\* recompute.
C9_OrderIndependent ==
  (ran = SourceNames /\ pc = "idle") =>
     \A fresh \in {[e \in Entities |-> Fresh]} : \A conf \in {ConfiguredSources} :
        /\ rstate = recompute_classes_reachable_from_code(
                       InCodeOrder(SourceNames, fresh), scope)
        /\ \A S \in SUBSET conf : \A left \in {InCodeOrder(S, fresh)} :
              /\ \A src \in S :
                    ApplySource(src, InCodeOrder(S \ {src}, fresh)) = left
              /\ \A src \in SourceNames \ conf : ApplySource(src, left) = left

\* C9 witness: all seven sources have run and have left marks of all four
\* kinds
C9_Witness ==
  /\ ran = SourceNames
  /\ pc = "idle"
  /\ rstate["A"].type /\ rstate["A"].seed /\ rstate["B"].ext
  /\ rstate["A.d"].ext /\ rstate["B.v"].type
  /\ ~rstate["C"].ext /\ ~rstate["C"].type

\* the classes that declare a method with the native access flag
DeclaresNative(c) ==
  \E m \in Range(get_dmethods(c)) \cup Range(get_vmethods(c)) : m \in NativeMethods

\* C10: recompute_classes_reachable_from_code leaves every class of the
\* scope that declares a native method, and all its methods and fields,
\* string_referenced_from_code and not deletable; it clears no fact of any
\* entity and changes can_rename of no entity.
C10_Recompute ==
  [][Called("recompute_classes_reachable_from_code") =>
       /\ \A i \in DOMAIN scope :
            DeclaresNative(scope[i]) =>
              \A e \in {scope[i]} \cup MembersOf(scope[i]) :
                 rstate'[e].code /\ ~can_delete(rstate'[e])
       /\ \A e \in Entities :
            /\ KeepsFacts(e)
            /\ can_rename(rstate'[e]) = can_rename(rstate[e])]_vars

\* C10 witness: after the recompute B and C, which declare native methods,
\* are string_referenced_from_code with their members and can still be
\* renamed; A, which declares none, is not marked
C10_Witness ==
  /\ last.op = "recompute_classes_reachable_from_code"
  /\ \A e \in {"B", "C"} \cup MembersOf("B") \cup MembersOf("C") :
       rstate[e].code /\ can_rename(rstate[e]) /\ ~can_delete(rstate[e])
  /\ \A e \in {"A"} \cup MembersOf("A") : ~rstate[e].code

\* the marking operations and the recompute
MarkingOps ==
  {"mark_reachable_directly", "mark_only_reachable_directly",
   "mark_reachable_by_classname", "mark_reachable_by_classname_type",
   "mark_reachable_by_classname_str", "mark_reachable_by_seed",
   "mark_reachable_by_seed_type", "recompute_classes_reachable_from_code"}

\* C11: a marking operation called a second time in a row on the same
\* entity (and with the same from_code), and a recompute run a second time
\* in a row on the same scope, leave the state of every entity as the first
\* call left it.
C11_Idempotent ==
  [][(repeat' /\ last'.op \in MarkingOps) => rstate' = rstate]_vars

\* C11 witness: mark_reachable_directly was called twice in a row on the
\* class B; B and its members are type_referenced and carry no other fact
C11_Witness ==
  /\ repeat
  /\ last.op = "mark_reachable_directly"
  /\ last.arg = "B"
  /\ \A e \in {"B"} \cup MembersOf("B") :
       rstate[e] = [Fresh EXCEPT !.type = TRUE]

\* the lines of a seeds file that hold neither ':' nor '$'
UnqualifiedLines(lines) ==
  SelectSeq(lines, LAMBDA l : ~Contains(l, <<":">>) /\ ~Contains(l, <<"$">>))

\* C12: init_seed_classes on a missing or unreadable file returns 0 and
\* changes the state of no entity; on a readable file the lines that hold
\* ':' or '$' count for nothing: the value returned and the state of every
\* entity are those that the file without these lines gives, the value
\* returned is at most the number of the other lines, and a class becomes
\* seed_referenced only if one of the other lines names it.
C12_SeedLinesSkipped ==
  [][Called("init_seed_classes") =>
       LET f == last'.arg
           kept == UnqualifiedLines(f.lines)
           clean == init_seed_classes(rstate, [found |-> TRUE, lines |-> kept])
       IN IF ~f.found
          THEN last'.ret = 0 /\ rstate' = rstate
          ELSE /\ last'.ret = clean.count
               /\ last'.ret <= Len(kept)
               /\ rstate' = clean.rs
               /\ \A e \in Entities :
                    rstate'[e] # rstate[e] =>
                      /\ e \in Classes
                      /\ \E i \in DOMAIN kept : DescriptorOf(kept[i]) = Descriptor[e]]_vars

\* C12 witness: the file y.B, AB$1, y.B has been read: the line AB$1 was
\* skipped although LAB$1; is a known type, B is a seed and the value
\* returned counts the two other lines
C12_Witness ==
  /\ last.op = "init_seed_classes"
  /\ last.arg.found
  /\ Len(last.arg.lines) = 3
  /\ last.arg.lines[2] = <<"A", "B", "$", "1">>
  /\ last.ret = 2
  /\ is_seed(rstate["B"])
  /\ \A e \in Entities \ {"B"} : ~is_seed(rstate[e])

\* C12 witness of the missing file: the call returned 0 and no entity is
\* marked
C12_WitnessMissing ==
  /\ last.op = "init_seed_classes"
  /\ ~last.arg.found
  /\ last.ret = 0
  /\ \A e \in Entities : rstate[e] = Fresh

\* the position in the scope of the class with the name d
ScopePosition(d) == CHOOSE i \in DOMAIN scope : Descriptor[scope[i]] = d

\* the list names exactly the classes cs of the scope, once each, in the
\* order of the scope
ListsInScopeOrder(list, cs) ==
  /\ Len(list) = Cardinality(cs)
  /\ \A c \in cs : \E k \in DOMAIN list : list[k] = Descriptor[c]
  /\ \A k \in DOMAIN list : \E c \in cs : list[k] = Descriptor[c]
  /\ \A j, k \in DOMAIN list : j < k => ScopePosition(list[j]) < ScopePosition(list[k])

\* C13: reportReachableClasses changes the state of no entity; in each file
\* that opens, the list cant_delete names exactly the classes of the scope
\* with can_delete false, cant_rename exactly those with can_rename false
\* and must_keep exactly those with is_seed true, each once and in scope
\* order; a file that does not open is not written.
C13_ReportPureRead ==
  [][Called("reportReachableClasses") =>
       /\ rstate' = rstate
       /\ last'.ret.written = last'.arg
       /\ IF "cant_delete" \in last'.arg
          THEN ListsInScopeOrder(last'.ret.cant_delete,
                                 {c \in Range(scope) : ~can_delete(rstate[c])})
          ELSE last'.ret.cant_delete = <<>>
       /\ IF "cant_rename" \in last'.arg
          THEN ListsInScopeOrder(last'.ret.cant_rename,
                                 {c \in Range(scope) : ~can_rename(rstate[c])})
          ELSE last'.ret.cant_rename = <<>>
       /\ IF "must_keep" \in last'.arg
          THEN ListsInScopeOrder(last'.ret.must_keep,
                                 {c \in Range(scope) : is_seed(rstate[c])})
          ELSE last'.ret.must_keep = <<>>]_vars

\* C13 witness: a report written in the scope order C, B, A after
\* init_reachable_classes, all three files open: all three classes cannot
\* be deleted, fewer of them cannot be renamed, none is a seed
C13_Witness ==
  /\ last.op = "reportReachableClasses"
  /\ last.ret.written = {"cant_delete", "cant_rename", "must_keep"}
  /\ scope = <<"C", "B", "A">>
  /\ last.ret.cant_delete = <<Descriptor["C"], Descriptor["B"], Descriptor["A"]>>
  /\ Len(last.ret.cant_rename) \in {1, 2}
  /\ last.ret.must_keep = <<>>

\* C14: the reflected-package closure returns on every entity graph, also
\* on one whose super class relation has a cycle: no run of the closure
\* fails to terminate.
C14_ClosureTerminates == status # "diverged"

\* C15 as stated: when a member-keep rule matches a class and a static
\* field of it, the class, the field and every other method and field of
\* the class are type_referenced afterwards.
C15_MemberKeepCascades ==
  [][SourceRan("class_members") =>
       \A c \in Classes :
          MemberKept(c, run.cfg.class_members) # {} =>
             \A e \in {c} \cup MembersOf(c) : rstate'[e].type]_vars

\* C15 as amended: for every class, the first rule in which the descriptor
\* of the class occurs decides.  Every static field that this rule names
\* after the descriptor becomes type_referenced, and with at least one such
\* field so does the class; the mark on the class does not cascade: every
\* method, every instance field and every static field that the rule does
\* not name keeps the state it had.  When that rule names no static field
\* of the class, or no rule holds the descriptor, the class and all its
\* members keep their state, whatever the later rules name.
C15_MemberKeepNoCascade ==
  [][SourceRan("class_members") =>
       LET rules == run.cfg.class_members
       IN \A c \in Classes :
            \A named \in {IF RuleNaming(c, rules) = 0 THEN {}
                          ELSE SfieldsNamedBy(c, rules[RuleNaming(c, rules)])} :
               /\ \A f \in named : rstate'[f] = [rstate[f] EXCEPT !.type = TRUE]
               /\ rstate'[c] = IF named = {} THEN rstate[c]
                                ELSE [rstate[c] EXCEPT !.type = TRUE]
               /\ \A m \in Range(get_dmethods(c)) \cup Range(get_vmethods(c))
                            \cup Range(get_ifields(c)) : rstate'[m] = rstate[m]
               /\ \A f \in Range(get_sfields(c)) \ named : rstate'[f] = rstate[f]]_vars

\* C15 witness: the rule that holds Lx/A; and f has marked A and its static
\* field f; the methods, the instance field and the other static field of A
\* are untouched
C15_Witness ==
  /\ pc = "methods"
  /\ ran = {"annotations", "class_members"}
  /\ Len(run.cfg.class_members) = 1
  /\ Contains(run.cfg.class_members[1], Descriptor["A"])
  /\ rstate["A"] = [Fresh EXCEPT !.type = TRUE]
  /\ rstate["A.s"] = [Fresh EXCEPT !.type = TRUE]
  /\ \A m \in {"A.d", "A.v", "A.i", "A.t"} : rstate[m] = Fresh

\* the rules in which the descriptor of the class occurs
RulesNaming(cls, rules) == {j \in DOMAIN rules : Contains(rules[j], Descriptor[cls])}

\* C18 as stated: when two rules name the same class and different static
\* fields of it, both fields are type_referenced afterwards.
C18_EveryRuleApplied ==
  [][SourceRan("class_members") =>
       LET rules == run.cfg.class_members
       IN \A c \in Classes :
            \A j1, j2 \in RulesNaming(c, rules) :
               \A f1 \in SfieldsNamedBy(c, rules[j1]) :
                  \A f2 \in SfieldsNamedBy(c, rules[j2]) :
                     (j1 # j2 /\ f1 # f2) =>
                        rstate'[f1].type /\ rstate'[f2].type]_vars

\* C18 as amended: for every class only the first rule that names it is
\* applied: the static fields that this rule names become type_referenced,
\* and a static field that only a later rule names keeps the state it had.
C18_OnlyFirstRuleApplied ==
  [][SourceRan("class_members") =>
       LET rules == run.cfg.class_members
       IN \A c \in Classes :
            \A first \in {RuleNaming(c, rules)} :
               first # 0 =>
                 \A f \in Range(get_sfields(c)) :
                    IF f \in SfieldsNamedBy(c, rules[first])
                    THEN rstate'[f].type
                    ELSE rstate'[f] = rstate[f]]_vars

\* C18 witness: the rules Lx/A;f and Lx/A;h, in this order: the static field
\* f of A is marked, the static field h of A is not
C18_Witness ==
  /\ pc = "methods"
  /\ ran = {"annotations", "class_members"}
  /\ Len(run.cfg.class_members) = 2
  /\ run.cfg.class_members[1] = Descriptor["A"] \o <<"f">>
  /\ run.cfg.class_members[2] = Descriptor["A"] \o <<"h">>
  /\ rstate["A.s"].type
  /\ rstate["A"].type
  /\ rstate["A.t"] = Fresh

\* the keep set of the annotation source: the configured annotation names
\* that are names of known types, and the caller's no-optimization types
KeepSet(input) ==
  {a \in Range(input.annotations) : a \in KnownTypes} \cup input.no_optimizations_anno

\* C16: keep_annotated_classes makes type_referenced exactly the classes,
\* methods and fields that themselves carry an annotation whose type is in
\* the keep set; every other entity, also an unannotated member of an
\* annotated class and the unannotated owner of an annotated member, keeps
\* the state it had.
C16_AnnotationKeepExact ==
  [][SourceRan("annotations") =>
       \A keep \in {KeepSet(run.cfg)} :
          \A e \in Entities :
             rstate'[e] = IF \E a \in AnnoSet[e] : a \in keep
                          THEN [rstate[e] EXCEPT !.type = TRUE]
                          ELSE rstate[e]]_vars

\* C16 witness: with the annotation K kept, the annotated class A and the
\* annotated method B.v are marked; the members of A, the class B and its
\* other members are not
C16_Witness ==
  /\ pc = "class_members"
  /\ ran = {"annotations"}
  /\ run.cfg.annotations = <<AnnoK>>
  /\ rstate["A"] = [Fresh EXCEPT !.type = TRUE]
  /\ rstate["B.v"] = [Fresh EXCEPT !.type = TRUE]
  /\ \A e \in Entities \ {"A", "B.v"} : rstate[e] = Fresh

\* the name is the descriptor of a class of the program
Resolved(name) == \E c \in Classes : Descriptor[c] = name

ResolvedOnly(names) == SelectSeq(names, LAMBDA n : Resolved(n))

\* the configuration without the class names that resolve to no class and
\* without the annotation names that resolve to no type
ResolvedConfig(cfg) ==
  [cfg EXCEPT !.annotations = SelectSeq(@, LAMBDA n : n \in KnownTypes),
              !.apk = [@ EXCEPT !.manifest = ResolvedOnly(@),
                                !.layout = ResolvedOnly(@),
                                !.native = ResolvedOnly(@)]]

\* the configuration without the class names and without the annotation
\* names that resolve to no class
WithClassConfig(cfg) ==
  [ResolvedConfig(cfg) EXCEPT !.annotations = ResolvedOnly(@)]

\* the seeds file without the lines whose name resolves to no class
ResolvedSeeds(f) ==
  [f EXCEPT !.lines = SelectSeq(@, LAMBDA l : Resolved(DescriptorOf(l)))]

\* the entry points that take a name or a type, and those that take a class
NameEntryCalled ==
  \/ Called("mark_reachable_by_classname_str")
  \/ Called("mark_reachable_by_classname_type")
  \/ Called("mark_reachable_by_seed_type")

ClassEntryCalled ==
  Called("mark_reachable_by_classname") \/ Called("mark_reachable_by_seed")

\* C17 as stated: a name that resolves to no type, or to a type with no
\* class in the program, is a silent no-op at every entry point: a marking
\* entry point called with such a name changes the state of no entity, and
\* the seed lines, the manifest, layout and native class names and the
\* configured annotation types of that kind leave the state that the input
\* without them gives.
C17_UnresolvedNoOp ==
  [][/\ (NameEntryCalled /\ ~Resolved(last'.arg)) => rstate' = rstate
     /\ (ClassEntryCalled /\ last'.arg = NULL) => rstate' = rstate
     /\ Called("init_seed_classes") =>
          /\ rstate' = init_seed_classes(rstate, ResolvedSeeds(last'.arg)).rs
          /\ ResolvedSeeds(last'.arg).lines = <<>> => rstate' = rstate
     /\ Called("init_reachable_classes") =>
          rstate' = init_reachable_classes(rstate, scope, super,
                                           WithClassConfig(last'.arg)).rs]_vars

\* C17 as amended: a class name that resolves to no type, or to a type with
\* no class in the program, is a silent no-op: a marking entry point called
\* with it changes the state of no entity; the seed lines and the manifest,
\* layout and native class names of that kind leave the state that the
\* input without them gives, and when no seed line resolves the state of
\* every entity is unchanged.  A configured annotation name is skipped only
\* when it resolves to no type: an annotation type without a class in the
\* program is kept, and every entity that carries it is type_referenced
\* after init_reachable_classes.
C17_UnresolvedSkipped ==
  [][/\ (NameEntryCalled /\ ~Resolved(last'.arg)) => rstate' = rstate
     /\ (ClassEntryCalled /\ last'.arg = NULL) => rstate' = rstate
     /\ Called("init_seed_classes") =>
          /\ rstate' = init_seed_classes(rstate, ResolvedSeeds(last'.arg)).rs
          /\ ResolvedSeeds(last'.arg).lines = <<>> => rstate' = rstate
     /\ Called("init_reachable_classes") =>
          /\ rstate' = init_reachable_classes(rstate, scope, super,
                                              ResolvedConfig(last'.arg)).rs
          /\ \A e \in Entities :
                (\E a \in Range(last'.arg.annotations) :
                    a \in KnownTypes /\ a \in AnnoSet[e]) => rstate'[e].type]_vars

\* C17 witness: init_reachable_classes has returned with the annotation
\* names LK; (a type without a class) and Lq/Q; (no type), the layout class
\* name LZ; (a type without a class) and the manifest class name Lq/Q;: the
\* method B.v, which carries LK;, is type_referenced
C17_Witness ==
  /\ last.op = "init_reachable_classes"
  /\ last.arg.annotations = <<AnnoK, UnknownType>>
  /\ ~Resolved(AnnoK)
  /\ LibType \in Range(last.arg.apk.layout)
  /\ UnknownType \in Range(last.arg.apk.manifest)
  /\ rstate["B.v"].type

\* C19: in every state, for every entity, is_seed implies that can_rename
\* is false and can_rename false implies that can_delete is false; of the
\* files that a report has written, every name of must_keep is in
\* cant_rename and in cant_delete, and every name of cant_rename is in
\* cant_delete.
C19_NestedVerdicts ==
  /\ \A e \in Entities :
       /\ is_seed(rstate[e]) => ~can_rename(rstate[e])
       /\ ~can_rename(rstate[e]) => ~can_delete(rstate[e])
  /\ last.op = "reportReachableClasses" =>
       /\ {"must_keep", "cant_rename"} \subseteq last.ret.written =>
            Range(last.ret.must_keep) \subseteq Range(last.ret.cant_rename)
       /\ {"cant_rename", "cant_delete"} \subseteq last.ret.written =>
            Range(last.ret.cant_rename) \subseteq Range(last.ret.cant_delete)
       /\ {"must_keep", "cant_delete"} \subseteq last.ret.written =>
            Range(last.ret.must_keep) \subseteq Range(last.ret.cant_delete)

\* C19 witness: a report written after the seed class B was marked: B is in
\* all three lists, and B can be neither renamed nor deleted
C19_Witness ==
  /\ last.op = "reportReachableClasses"
  /\ last.ret.written = {"cant_delete", "cant_rename", "must_keep"}
  /\ last.ret.must_keep = <<Descriptor["B"]>>
  /\ Descriptor["B"] \in Range(last.ret.cant_rename)
  /\ Descriptor["B"] \in Range(last.ret.cant_delete)
  /\ is_seed(rstate["B"]) /\ ~can_rename(rstate["B"]) /\ ~can_delete(rstate["B"])

\* C20: a cascading mark is atomic to observers: a reader that queries a
\* class and its members, also while mark_reachable_directly or
\* mark_reachable_by_classname is in progress on the class, never finds the
\* class or some of its members marked and not all members declared on the
\* class.
C20_CascadeAtomic ==
  observed.cls # NULL =>
     \/ observed.cant_delete = {}
     \/ MembersOf(observed.cls) \subseteq observed.cant_delete

====
